---- MODULE Spec2Model ----
(***************************************************************************)
(* A model of the simple-wave MS Wave (.wav) reader/writer in wave.h:      *)
(* the chunk classes (Chunk, RiffChunk, FmtChunk, DataChunk), the Wave     *)
(* container (Load, LoadMetadata, Save, Resize, GetSample, SetSample) and  *)
(* the sample codec (GetValue, TakeChannelAvg, PutChannelAvg).             *)
(*                                                                         *)
(* Files are sequences of bytes.  16- and 32-bit header fields are         *)
(* naturals assembled from and split into little-endian bytes.  The        *)
(* unsigned long long values of the sample codec are sequences of eight    *)
(* base-256 digits, least significant first, so that 32-bit samples and    *)
(* the 64-bit arithmetic on them keep their width.                         *)
(***************************************************************************)
EXTENDS Integers, Sequences, FiniteSets, TLC

VARIABLES wave, disk, ret, last, ops, gsrc, file

vars == <<wave, disk, ret, last, ops, gsrc, file>>

(***************************************************************************)
(* Bounds of the model.                                                    *)
(***************************************************************************)
\* Load, LoadMetadata, Save, Resize, SetSample and field assignments taken
\* in one run (GetSample and the construction of a new Wave are not counted).
MaxOps == 3
\* The counted operations of a run of SpecSamples.
MaxEdits == 2
\* Resize is called with 0..MaxResize samples; offsets range over 0..MaxResize.
MaxResize == 1

Min(a, b) == IF a < b THEN a ELSE b
Max(a, b) == IF a < b THEN b ELSE a

(***************************************************************************)
(* Bytes and bit operations on bytes.                                      *)
(***************************************************************************)
RECURSIVE Pow256(_)
Pow256(i) == IF i = 0 THEN 1 ELSE 256 * Pow256(i - 1)

RECURSIVE BitOr(_, _)
BitOr(a, b) ==
    IF a = 0 THEN b
    ELSE IF b = 0 THEN a
    ELSE (IF (a % 2) + (b % 2) > 0 THEN 1 ELSE 0) + 2 * BitOr(a \div 2, b \div 2)

RECURSIVE BitAnd(_, _)
BitAnd(a, b) ==
    IF a = 0 \/ b = 0 THEN 0
    ELSE (IF (a % 2) + (b % 2) = 2 THEN 1 ELSE 0) + 2 * BitAnd(a \div 2, b \div 2)

(***************************************************************************)
(* Streams.  An input stream is the file's bytes, the number of bytes      *)
(* consumed and the good() flag.                                           *)
(***************************************************************************)
OpenIn(bytes) == [buf |-> bytes, pos |-> 0, good |-> TRUE]

\* istream::read(p, n): the bytes obtained and the stream afterwards.  A
\* stream that is not good reads nothing; a short read clears good().
StreamRead(s, n) ==
    IF ~s.good THEN [got |-> <<>>, s |-> s]
    ELSE LET avail == Min(n, Len(s.buf) - s.pos)
         IN  [got |-> SubSeq(s.buf, s.pos + 1, s.pos + avail),
              s   |-> [s EXCEPT !.pos = s.pos + avail, !.good = (avail = n)]]

\* istream::ignore(n).
StreamIgnore(s, n) == StreamRead(s, n).s

\* ReadLittleEndian<T>, sizeof(T) = width: byte i lands at bits 8i..8i+7.  A
\* byte the stream could not deliver leaves `char byte` uninitialized: g.
\* ReadLEByte is one turn of the loop after stream.read(&byte, 1) gave r,
\* rest being what the later turns give.  (The results are bound as values,
\* through one-element sets, so that no stream is computed twice.)
ReadLEByte(r, rest, i, g) ==
    [val |-> (IF Len(r.got) = 1 THEN r.got[1] ELSE g) * Pow256(i) + rest.val,
     s   |-> rest.s]

RECURSIVE ReadLEFrom(_, _, _, _)
ReadLEFrom(s, width, i, g) ==
    IF i = width THEN [val |-> 0, s |-> s]
    ELSE CHOOSE out \in {ReadLEByte(r, ReadLEFrom(r.s, width, i + 1, g), i, g) :
                            r \in {StreamRead(s, 1)}} : TRUE

ReadLittleEndian(s, width, g) ==
    CHOOSE out \in {ReadLEFrom(t, width, 0, g) : t \in {s}} : TRUE

\* The most significant byte first.
WriteBigEndian(out, width) ==
    [i \in 1..width |-> (out \div Pow256(width - i)) % 256]

\* WriteLittleEndian<T>: byte i is (out >> 8*i) & 0xff.
WriteLittleEndian(out, width) ==
    [i \in 1..width |-> (out \div Pow256(i - 1)) % 256]

(***************************************************************************)
(* Chunk, RiffChunk, FmtChunk.                                             *)
(***************************************************************************)
\* "RIFF", "fmt ", "data" and "WAVE" read as little-endian 32-bit values.
CHUNK_TYPE_RIFF == 1179011410
CHUNK_TYPE_FMT == 544501094
CHUNK_TYPE_DATA == 1635017060
RIFF_TYPE_WAVE == 1163280727

DEFAULT_CHUNK_SIZE_FMT == 16
DEFAULT_CHUNK_SIZE_DATA == 0
\* "The default file size minus 8."
DEFAULT_CHUNK_SIZE_RIFF ==
    4 + 8 + DEFAULT_CHUNK_SIZE_FMT + 8 + DEFAULT_CHUNK_SIZE_DATA

COMPRESSION_NONE == 1
DEFAULT_COMPRESSION == COMPRESSION_NONE
DEFAULT_NCHANNELS == 1
DEFAULT_SAMPLE_RATE == 22050
DEFAULT_BITS_PER_SAMPLE == 16
DEFAULT_BLOCK_ALIGN == (DEFAULT_BITS_PER_SAMPLE \div 8) * DEFAULT_NCHANNELS
DEFAULT_BYTES_PER_SEC == DEFAULT_SAMPLE_RATE * DEFAULT_BLOCK_ALIGN

\* Chunk::Chunk(type): the default chunk_size of each chunk type.
ChunkDefaultSize(type) ==
    IF type = CHUNK_TYPE_RIFF THEN DEFAULT_CHUNK_SIZE_RIFF
    ELSE IF type = CHUNK_TYPE_FMT THEN DEFAULT_CHUNK_SIZE_FMT
    ELSE IF type = CHUNK_TYPE_DATA THEN DEFAULT_CHUNK_SIZE_DATA
    ELSE 0

\* Chunk::WriteTo: the type, then the size.
ChunkWriteTo(type, size) ==
    WriteLittleEndian(type, 4) \o WriteLittleEndian(size, 4)

NewRiffChunk ==
    [chunk_type |-> CHUNK_TYPE_RIFF,
     chunk_size |-> ChunkDefaultSize(CHUNK_TYPE_RIFF),
     riff_type  |-> RIFF_TYPE_WAVE]

\* RiffChunk::ReadFrom: chunk_size (Chunk::ReadFrom), then riff_type.
RiffReadFrom(c, s, g) ==
    LET r1 == ReadLittleEndian(s, 4, g)
        r2 == ReadLittleEndian(r1.s, 4, g)
    IN  [c |-> [c EXCEPT !.chunk_size = r1.val, !.riff_type = r2.val],
         s |-> r2.s]

RiffWriteTo(c) ==
    ChunkWriteTo(c.chunk_type, c.chunk_size) \o WriteLittleEndian(c.riff_type, 4)

NewFmtChunk ==
    [chunk_type      |-> CHUNK_TYPE_FMT,
     chunk_size      |-> ChunkDefaultSize(CHUNK_TYPE_FMT),
     compression     |-> DEFAULT_COMPRESSION,
     nchannels       |-> DEFAULT_NCHANNELS,
     sample_rate     |-> DEFAULT_SAMPLE_RATE,
     bytes_per_sec   |-> DEFAULT_BYTES_PER_SEC,
     block_align     |-> DEFAULT_BLOCK_ALIGN,
     bits_per_sample |-> DEFAULT_BITS_PER_SAMPLE]

\* FmtChunk::ReadFrom: chunk_size, then the six fields, 16 bytes whatever
\* chunk_size says.
FmtReadFrom(c, s, g) ==
    LET r0 == ReadLittleEndian(s, 4, g)
        r1 == ReadLittleEndian(r0.s, 2, g)
        r2 == ReadLittleEndian(r1.s, 2, g)
        r3 == ReadLittleEndian(r2.s, 4, g)
        r4 == ReadLittleEndian(r3.s, 4, g)
        r5 == ReadLittleEndian(r4.s, 2, g)
        r6 == ReadLittleEndian(r5.s, 2, g)
    IN  [c |-> [c EXCEPT !.chunk_size = r0.val,
                         !.compression = r1.val,
                         !.nchannels = r2.val,
                         !.sample_rate = r3.val,
                         !.bytes_per_sec = r4.val,
                         !.block_align = r5.val,
                         !.bits_per_sample = r6.val],
         s |-> r6.s]

FmtWriteTo(c) ==
    ChunkWriteTo(c.chunk_type, c.chunk_size)
        \o WriteLittleEndian(c.compression, 2)
        \o WriteLittleEndian(c.nchannels, 2)
        \o WriteLittleEndian(c.sample_rate, 4)
        \o WriteLittleEndian(c.bytes_per_sec, 4)
        \o WriteLittleEndian(c.block_align, 2)
        \o WriteLittleEndian(c.bits_per_sample, 2)

(***************************************************************************)
(* DataChunk.  data_ is the buffer's content while ptr = "live"; ptr is    *)
(* "null" for a NULL data_ and "freed" for a data_ that still holds the    *)
(* address of a buffer delete[] has released.                              *)
(***************************************************************************)
\* What new char[n] may hold before it is written: a choice of fill.
Fills == {0, 165}
FillByte(p, i) == IF p = 0 THEN 0 ELSE (p + 16 * i) % 256
Uninit(n, p) == [i \in 1..n |-> FillByte(p, i)]

NewDataChunk(type) ==
    [chunk_type   |-> type,
     chunk_size   |-> ChunkDefaultSize(type),
     data_        |-> <<>>,
     data_length_ |-> 0,
     ptr          |-> "null"]

\* Word alignment without the filler byte.
AllocLengthNoPad(length) == length

\* data_length_ = chunk_size = length; data_length_ += chunk_size % 2.
AllocLength(length) == length + (length % 2)

\* DataChunk::ReAllocData.  `if (data_) delete[] data_` releases the buffer
\* and leaves data_ as it is; only a nonzero data_length_ assigns data_.
ReAllocData(c, length, p) ==
    LET n == AllocLength(length)
    IN  [c EXCEPT
            !.chunk_size   = length,
            !.data_length_ = n,
            !.data_        = IF n = 0 THEN <<>>
                             ELSE [i \in 1..n |->
                                     IF length % 2 = 1 /\ i = n THEN 0
                                     ELSE FillByte(p, i)],
            !.ptr          = IF n > 0 THEN "live"
                             ELSE IF c.ptr = "null" THEN "null" ELSE "freed"]

\* Whether ReAllocData or ~DataChunk on c runs delete[] on a released buffer.
DeletesFreed(c) == c.ptr = "freed"

\* DataChunk::ReadFrom: Chunk::ReadFrom, ReAllocData(chunk_size), then
\* stream.read(data_, data_length_): the bytes obtained overwrite the head
\* of the buffer.  (One operator per statement, each result bound as a
\* value.)
DataGot(c1, r1) ==
    [c |-> [c1 EXCEPT !.data_ =
               [i \in 1..Len(c1.data_) |->
                   IF i <= Len(r1.got) THEN r1.got[i] ELSE c1.data_[i]]],
     s |-> r1.s]

DataFill(c1, s) ==
    CHOOSE out \in {DataGot(c1, r1) : r1 \in {StreamRead(s, c1.data_length_)}} : TRUE

DataAlloc(c, r0, p) ==
    CHOOSE out \in {DataFill(c1, r0.s) :
                       c1 \in {ReAllocData([c EXCEPT !.chunk_size = r0.val],
                                           r0.val, p)}} : TRUE

DataReadFrom(c, s, g, p) ==
    CHOOSE out \in {DataAlloc(c, r0, p) : r0 \in {ReadLittleEndian(s, 4, g)}} : TRUE

\* A Skip that passes over chunk_size bytes and not the filler byte.
DataSkipNoPad(c, s, g, p) ==
    LET c0 == ReAllocData(c, 0, p)
        r0 == ReadLittleEndian(s, 4, g)
    IN  [c |-> [c0 EXCEPT !.chunk_size = r0.val, !.data_length_ = r0.val],
         s |-> StreamIgnore(r0.s, r0.val)]

\* DataChunk::Skip: ReAllocData(0), Chunk::ReadFrom, then data_length_ is set
\* with no buffer behind it and the stream skips that many bytes.
DataSkip(c, s, g, p) ==
    LET c0 == ReAllocData(c, 0, p)
        r0 == ReadLittleEndian(s, 4, g)
        n  == r0.val + (r0.val % 2)
    IN  [c |-> [c0 EXCEPT !.chunk_size = r0.val, !.data_length_ = n],
         s |-> StreamIgnore(r0.s, n)]

\* DataChunk's copy constructor: ReAllocData(other.chunk_size), then memcpy.
DataCopy(other) ==
    LET c1 == ReAllocData(NewDataChunk(other.chunk_type), other.chunk_size, 0)
    IN  [c1 EXCEPT !.data_ = other.data_]

\* The bytes stream.write(data_, data_length_) emits.  With data_length_
\* bytes to write and no live buffer behind data_ the write reads through a
\* null or dangling pointer: the bytes are whatever is there (junk).
DataPayload(c, junk) ==
    IF c.data_length_ = 0 THEN <<>>
    ELSE IF c.ptr = "live" THEN c.data_
    ELSE Uninit(c.data_length_, junk)

\* DataChunk::WriteTo: Chunk::WriteTo, then the buffer.
DataWriteTo(c, junk) ==
    ChunkWriteTo(c.chunk_type, c.chunk_size) \o DataPayload(c, junk)

\* Whether WriteTo on c reads through a null or dangling data_.
WritesThroughBadPointer(c) == c.data_length_ > 0 /\ c.ptr /= "live"

(***************************************************************************)
(* Wide unsigned integers: sequences of base-256 digits, least significant *)
(* first.  An unsigned long long has eight digits; arithmetic on w digits  *)
(* is arithmetic modulo 2^(8w).                                            *)
(***************************************************************************)
\* sizeof(unsigned long long)
SizeofULL == 8

\* The w digits of a natural below 2^31.
Digits(n, w) == [i \in 1..w |-> IF i <= 4 THEN (n \div Pow256(i - 1)) % 256 ELSE 0]

\* d with its length made w: zero-extended or truncated.
Widen(d, w) == [i \in 1..w |-> IF i <= Len(d) THEN d[i] ELSE 0]

RECURSIVE AddFrom(_, _, _, _)
AddFrom(a, b, i, carry) ==
    IF i > Len(a) THEN <<>>
    ELSE LET t == a[i] + b[i] + carry
         IN  <<t % 256>> \o AddFrom(a, b, i + 1, t \div 256)

\* a + b on Len(a) digits.
AddD(a, b) == AddFrom(a, Widen(b, Len(a)), 1, 0)

RECURSIVE SubFrom(_, _, _, _)
SubFrom(a, b, i, borrow) ==
    IF i > Len(a) THEN <<>>
    ELSE LET t == a[i] - b[i] - borrow
         IN  <<(t + 256) % 256>> \o SubFrom(a, b, i + 1, IF t < 0 THEN 1 ELSE 0)

\* a - b on Len(a) digits (wrapping).
SubD(a, b) == SubFrom(a, Widen(b, Len(a)), 1, 0)

RECURSIVE LessFrom(_, _, _)
LessFrom(a, b, i) ==
    IF i = 0 THEN FALSE
    ELSE IF a[i] /= b[i] THEN a[i] < b[i]
    ELSE LessFrom(a, b, i - 1)

\* a < b, for a and b of any lengths.
LessD(a, b) ==
    LET w == Max(Len(a), Len(b)) IN LessFrom(Widen(a, w), Widen(b, w), w)

\* a = b as numbers.
EqD(a, b) ==
    LET w == Max(Len(a), Len(b)) IN Widen(a, w) = Widen(b, w)

RECURSIVE MulFrom(_, _, _, _)
MulFrom(a, k, i, carry) ==
    IF i > Len(a) THEN <<>>
    ELSE LET t == a[i] * k + carry
         IN  <<t % 256>> \o MulFrom(a, k, i + 1, t \div 256)

\* a * k on Len(a) digits, for a small natural k.
MulSmallD(a, k) == MulFrom(a, k, 1, 0)

RECURSIVE DivFrom(_, _, _, _)
DivFrom(a, k, i, rem) ==
    IF i = 0 THEN <<>>
    ELSE LET t == rem * 256 + a[i]
         IN  DivFrom(a, k, i - 1, t % k) \o <<t \div k>>

\* a \div k, for a small natural k > 0.
DivSmallD(a, k) == DivFrom(a, k, Len(a), 0)

\* The conversion of a 32-bit int to unsigned long long: sign extension.
IntToULL(d) ==
    [i \in 1..SizeofULL |-> IF i <= 4 THEN d[i] ELSE IF d[4] >= 128 THEN 255 ELSE 0]

OrD(a, b) == [i \in 1..Len(a) |-> BitOr(a[i], b[i])]
AndD(a, b) == [i \in 1..Len(a) |-> BitAnd(a[i], b[i])]
NotD(a) == [i \in 1..Len(a) |-> 255 - a[i]]

\* The natural a 32-bit value's four digits stand for.
U32Value(d) == d[1] + 256 * d[2] + 65536 * d[3] + 16777216 * d[4]

(***************************************************************************)
(* The sample codec.  A sample value is the fraction num/den; what         *)
(* GetSample returns is kept as the exact quantities it is computed from.  *)
(***************************************************************************)
\* Wave::max_thing_value: 0xff in each of the low sizeof_thing bytes.
max_thing_value(sizeof_thing) ==
    [i \in 1..SizeofULL |-> IF i <= sizeof_thing THEN 255 ELSE 0]

\* The int 1 << (sizeof_thing*8 - 1), for sizeof_thing in 1..4.
OneShifted(sizeof_thing) == [i \in 1..4 |-> IF i = sizeof_thing THEN 128 ELSE 0]

\* Wave::max_signed_value: ~(1 << (sizeof_thing*8-1)) & max_thing_value.
max_signed_value(sizeof_thing) ==
    AndD(IntToULL(NotD(OneShifted(sizeof_thing))), max_thing_value(sizeof_thing))

\* The int (unsigned char)byte << 8*i, for i in 0..3, converted to
\* unsigned long long as `answer |= ...` converts it.
ByteShifted(byte, i) == IntToULL([k \in 1..4 |-> IF k = i + 1 THEN byte ELSE 0])

\* The signed/unsigned re-biasing shared by GetValue and PutChannelAvg.
Rebias(x, sizeof_thing) ==
    LET half == AddD(max_signed_value(sizeof_thing), Digits(1, SizeofULL))
    IN  IF LessD(max_signed_value(sizeof_thing), x) THEN SubD(x, half)
        ELSE AddD(x, half)

RECURSIVE GetValueFrom(_, _, _)
GetValueFrom(things, sizeof_thing, i) ==
    IF i = sizeof_thing THEN Digits(0, SizeofULL)
    ELSE OrD(ByteShifted(things[i + 1], i), GetValueFrom(things, sizeof_thing, i + 1))

\* Wave::GetValue on the sizeof_thing bytes `things`.
GetValue(things, sizeof_thing, thing_is_signed) ==
    LET answer == GetValueFrom(things, sizeof_thing, 0)
    IN  IF thing_is_signed THEN Rebias(answer, sizeof_thing) ELSE answer

RECURSIVE ChannelTotal(_, _, _, _, _)
ChannelTotal(things, nthings, sizeof_thing, thing_is_signed, i) ==
    IF i = nthings THEN Digits(0, SizeofULL)
    ELSE AddD(GetValue(SubSeq(things, i * sizeof_thing + 1, (i + 1) * sizeof_thing),
                       sizeof_thing, thing_is_signed),
              ChannelTotal(things, nthings, sizeof_thing, thing_is_signed, i + 1))

\* Wave::TakeChannelAvg: (total/nthings / max_thing_value) * 2 - 1, kept as
\* total, nthings and the slice width.
TakeChannelAvg(things, nthings, sizeof_thing, thing_is_signed) ==
    IF nthings = 0 THEN [kind |-> "nan"]
    ELSE [kind    |-> "avg",
          total   |-> ChannelTotal(things, nthings, sizeof_thing, thing_is_signed, 0),
          nthings |-> nthings,
          size    |-> sizeof_thing]

\* (unsigned long long)((value+1.0)/2.0 * max_thing_value) for value in [-1,1].
Quantize(value, sizeof_thing) ==
    Widen(DivSmallD(MulSmallD(Widen(max_thing_value(sizeof_thing), SizeofULL + 2),
                              value.num + value.den),
                    2 * value.den),
          SizeofULL)

\* The value PutChannelAvg scatters into every channel slice.
EncodedThing(value, sizeof_thing, thing_is_signed) ==
    LET thing == Quantize(value, sizeof_thing)
    IN  IF thing_is_signed THEN Rebias(thing, sizeof_thing) ELSE thing

\* Only the first channel slice is written.
PutFirstChannelOnly(value, nthings, sizeof_thing, thing_is_signed) ==
    [count |-> IF nthings = 0 THEN 0 ELSE sizeof_thing,
     thing |-> EncodedThing(value, sizeof_thing, thing_is_signed)]

\* Wave::PutChannelAvg: it writes count = nthings*sizeof_thing bytes,
\* things[j + i*sizeof_thing] = thing >> 8*j.
PutChannelAvg(value, nthings, sizeof_thing, thing_is_signed) ==
    [count |-> nthings * sizeof_thing,
     thing |-> EncodedThing(value, sizeof_thing, thing_is_signed)]

(***************************************************************************)
(* Wave.                                                                   *)
(***************************************************************************)
NewWave ==
    [riff_chunk   |-> NewRiffChunk,
     fmt_chunk    |-> NewFmtChunk,
     data_chunk   |-> NewDataChunk(CHUNK_TYPE_DATA),
     other_chunks |-> <<>>]

bytes_per_sample(w) == w.fmt_chunk.block_align

bytes_per_sample_slice(w) == w.fmt_chunk.bits_per_sample \div 8

\* The bounds check compares with one sample more than there are.
nsamplesOffByOne(w) ==
    IF w.data_chunk.chunk_size = 0 \/ bytes_per_sample(w) = 0 THEN 0
    ELSE (w.data_chunk.chunk_size \div bytes_per_sample(w)) + 1

\* Wave::nsamples
nsamples(w) ==
    IF w.data_chunk.chunk_size = 0 \/ bytes_per_sample(w) = 0 THEN 0
    ELSE w.data_chunk.chunk_size \div bytes_per_sample(w)

RECURSIVE SumSizes(_, _)
SumSizes(chunks, i) ==
    IF i > Len(chunks) THEN 0 ELSE chunks[i].chunk_size + SumSizes(chunks, i + 1)

\* Wave::UpdateRiffFileSize
UpdateRiffFileSize(w) ==
    LET total == 8 * 3 + 4 + w.fmt_chunk.chunk_size + w.data_chunk.chunk_size
                     + SumSizes(w.other_chunks, 1)
    IN  [w EXCEPT !.riff_chunk.chunk_size = total]

\* The derived fields without the division of bits_per_sample by 8.
UpdateFmtValuesBits(w) ==
    [w EXCEPT
        !.fmt_chunk.bytes_per_sec =
            U32Value(MulSmallD(MulSmallD(Digits(w.fmt_chunk.sample_rate, 4),
                                         w.fmt_chunk.nchannels),
                               w.fmt_chunk.bits_per_sample)),
        !.fmt_chunk.block_align =
            (w.fmt_chunk.nchannels * w.fmt_chunk.bits_per_sample) % 65536]

\* Wave::UpdateFmtValues: 32-bit and 16-bit products.
UpdateFmtValues(w) ==
    [w EXCEPT
        !.fmt_chunk.bytes_per_sec =
            U32Value(MulSmallD(MulSmallD(Digits(w.fmt_chunk.sample_rate, 4),
                                         w.fmt_chunk.nchannels),
                               w.fmt_chunk.bits_per_sample \div 8)),
        !.fmt_chunk.block_align =
            (w.fmt_chunk.nchannels * (w.fmt_chunk.bits_per_sample \div 8)) % 65536]

\* The size Resize asks ReAllocData for.
ResizeLength(w, new_nsamples) == new_nsamples * bytes_per_sample(UpdateFmtValues(w))

\* A Resize that sizes the buffer by block_align as it stands.
ResizeStale(w, new_nsamples, p) ==
    [w EXCEPT !.data_chunk =
        ReAllocData(w.data_chunk, new_nsamples * bytes_per_sample(w), p)]

\* Wave::Resize
Resize(w, new_nsamples, p) ==
    LET w1 == UpdateFmtValues(w)
    IN  [w1 EXCEPT !.data_chunk =
            ReAllocData(w1.data_chunk, new_nsamples * bytes_per_sample(w1), p)]

\* The slice widths GetValue and PutChannelAvg shift within an int for.
SupportedSlice(w) == bytes_per_sample_slice(w) \in 1..4

\* The bytes of the audio buffer a sample access touches: 0-based [lo, hi).
AccessLo(w, offset) == offset * bytes_per_sample(w)
AccessHi(w, offset) ==
    AccessLo(w, offset) + w.fmt_chunk.nchannels * bytes_per_sample_slice(w)

\* Whether the access stays inside a live buffer of data_length_ bytes.
AccessInBuffer(w, offset) ==
    \/ AccessHi(w, offset) = AccessLo(w, offset)
    \/ /\ w.data_chunk.ptr = "live"
       /\ AccessHi(w, offset) <= Len(w.data_chunk.data_)

\* Wave::GetSample.  An access outside the buffer has no defined value.
GetSample(w, offset) ==
    IF offset >= nsamples(w) THEN [kind |-> "zero"]
    ELSE IF ~AccessInBuffer(w, offset) THEN [kind |-> "undefined"]
    ELSE TakeChannelAvg(SubSeq(w.data_chunk.data_,
                               AccessLo(w, offset) + 1, AccessHi(w, offset)),
                        w.fmt_chunk.nchannels, bytes_per_sample_slice(w),
                        bytes_per_sample_slice(w) /= 1)

\* Wave::SetSample.  Bytes that fall outside the buffer are not kept.
SetSample(w, offset, value) ==
    IF offset >= nsamples(w) THEN w
    ELSE LET put == PutChannelAvg(value, w.fmt_chunk.nchannels,
                                  bytes_per_sample_slice(w),
                                  bytes_per_sample_slice(w) /= 1)
             lo  == AccessLo(w, offset)
         IN  IF w.data_chunk.ptr /= "live" THEN w
             ELSE [w EXCEPT !.data_chunk.data_ =
                     [i \in 1..Len(w.data_chunk.data_) |->
                         IF lo < i /\ i <= lo + put.count
                         THEN put.thing[((i - 1 - lo) % bytes_per_sample_slice(w)) + 1]
                         ELSE w.data_chunk.data_[i]]]

\* What an uninitialized `char byte` of ReadLittleEndian may hold.
Garbage == {0, 1}

\* The loop of Wave::Load(file, filename, load_data): one iteration per
\* chunk, until the stream is no longer good.  The result is the Wave, ok
\* (the file was taken for a Wave file), deleted (a delete[] ran on an
\* already released buffer) and clean (every read but the last chunk type's
\* got all its bytes: no uninitialized byte and no unwritten buffer byte
\* reaches the Wave).
RECURSIVE LoadLoop(_, _, _, _, _, _)
RECURSIVE LoadChunk(_, _, _, _, _, _)

\* The rest of the loop after fmt_chunk.ReadFrom(file) gave r.
LoadedFmt(w, r, load_data, g, p, deleted) ==
    LoadLoop([w EXCEPT !.fmt_chunk = r.c], r.s, load_data, g, p, deleted)

\* The rest of the loop after data_chunk.ReadFrom(file) or .Skip(file).
LoadedData(w, r, load_data, g, p, deleted) ==
    LoadLoop([w EXCEPT !.data_chunk = r.c], r.s, load_data, g, p, deleted)

\* The rest of the loop after other_chunks.push_back(chunk).
LoadedOther(w, r, load_data, g, p, deleted) ==
    LoadLoop([w EXCEPT !.other_chunks = Append(w.other_chunks, DataCopy(r.c))],
             r.s, load_data, g, p, deleted)

\* One iteration, t being the chunk type ReadLittleEndian gave.
LoadChunk(w, t, load_data, g, p, deleted) ==
    IF ~t.s.good
    THEN [w |-> w, ok |-> TRUE, deleted |-> deleted, clean |-> TRUE]
    ELSE IF t.val = CHUNK_TYPE_FMT
    THEN LoadedFmt(w, FmtReadFrom(w.fmt_chunk, t.s, g), load_data, g, p, deleted)
    ELSE IF t.val = CHUNK_TYPE_DATA
    THEN LoadedData(w,
                    IF load_data THEN DataReadFrom(w.data_chunk, t.s, g, p)
                    ELSE DataSkip(w.data_chunk, t.s, g, p),
                    load_data, g, p, deleted \/ DeletesFreed(w.data_chunk))
    ELSE LoadedOther(w, DataReadFrom(NewDataChunk(t.val), t.s, g, p),
                     load_data, g, p, deleted)

LoadLoop(w, s, load_data, g, p, deleted) ==
    IF ~s.good
    THEN [w |-> w, ok |-> TRUE, deleted |-> deleted, clean |-> FALSE]
    ELSE LoadChunk(w, ReadLittleEndian(s, 4, g), load_data, g, p, deleted)

\* A Load that goes on to the loop whatever riff_type is.
LoadWaveUnchecked(w, r, load_data, g, p) ==
    LoadLoop([w EXCEPT !.riff_chunk = r.c], r.s, load_data, g, p, FALSE)

\* Wave::Load after riff_chunk.ReadFrom(file) gave r.
LoadWave(w, r, load_data, g, p) ==
    IF r.c.riff_type /= RIFF_TYPE_WAVE \/ ~r.s.good
    THEN [w |-> [w EXCEPT !.riff_chunk = r.c], ok |-> FALSE, deleted |-> FALSE,
          clean |-> r.s.good]
    ELSE LoadLoop([w EXCEPT !.riff_chunk = r.c], r.s, load_data, g, p, FALSE)

\* Wave::Load after the first chunk type t was read.
LoadRiff(w, t, load_data, g, p) ==
    IF t.val /= CHUNK_TYPE_RIFF
    THEN [w |-> w, ok |-> FALSE, deleted |-> FALSE, clean |-> t.s.good]
    ELSE LoadWave(w, RiffReadFrom(w.riff_chunk, t.s, g), load_data, g, p)

\* Wave::Load(file, filename, load_data) on an opened stream.
LoadStream(w, s, load_data, g, p) ==
    LoadRiff(w, ReadLittleEndian(s, 4, g), load_data, g, p)

\* What one iteration of the loop reads after the chunk type t: the chunk
\* and the stream afterwards.  Where the stream ends up does not depend on
\* the chunk object read into.
ChunkRead(t, load_data, g, p) ==
    IF t.val = CHUNK_TYPE_FMT THEN FmtReadFrom(NewFmtChunk, t.s, g)
    ELSE IF t.val = CHUNK_TYPE_DATA /\ ~load_data
    THEN DataSkip(NewDataChunk(t.val), t.s, g, p)
    ELSE DataReadFrom(NewDataChunk(t.val), t.s, g, p)

\* The stream positions of the loop of Wave::Load: one record per iteration
\* that read a chunk, with the chunk type, the position at which the type
\* was read (at), the chunk_size read, the position after the iteration
\* (next) and file.good() then.
RECURSIVE LoadCursors(_, _, _, _)
CursorsAfter(at, t, r, load_data, g, p) ==
    <<[tag |-> t.val, at |-> at, size |-> r.c.chunk_size, next |-> r.s.pos,
       good |-> r.s.good]>>
        \o LoadCursors(r.s, load_data, g, p)

CursorsChunk(at, t, load_data, g, p) ==
    IF ~t.s.good THEN <<>>
    ELSE CursorsAfter(at, t, ChunkRead(t, load_data, g, p), load_data, g, p)

LoadCursors(s, load_data, g, p) ==
    IF ~s.good THEN <<>>
    ELSE CursorsChunk(s.pos, ReadLittleEndian(s, 4, g), load_data, g, p)

\* The stream when the loop of Wave::Load starts, not good when Load
\* returns before the loop.
LoopStart(t, r) ==
    IF t.val = CHUNK_TYPE_RIFF /\ r.c.riff_type = RIFF_TYPE_WAVE THEN r.s
    ELSE [r.s EXCEPT !.good = FALSE]

StreamAtLoop(t, g) == LoopStart(t, RiffReadFrom(NewRiffChunk, t.s, g))

\* The positions of Wave::Load(file, filename, load_data) on bytes.
LoadTrace(bytes, load_data, g, p) ==
    LoadCursors(StreamAtLoop(ReadLittleEndian(OpenIn(bytes), 4, g), g),
                load_data, g, p)

RECURSIVE WriteChunks(_, _, _)
WriteChunks(chunks, i, junk) ==
    IF i > Len(chunks) THEN <<>>
    ELSE DataWriteTo(chunks[i], junk) \o WriteChunks(chunks, i + 1, junk)

\* The audio chunk written ahead of the other chunks.
SaveBytesDataFirst(w, junk) ==
    RiffWriteTo(w.riff_chunk) \o FmtWriteTo(w.fmt_chunk)
        \o DataWriteTo(w.data_chunk, junk)
        \o WriteChunks(w.other_chunks, 1, junk)

\* What Wave::Save writes after its two updates: riff, fmt, the other
\* chunks in order, the data chunk.
SaveBytes(w, junk) ==
    RiffWriteTo(w.riff_chunk) \o FmtWriteTo(w.fmt_chunk)
        \o WriteChunks(w.other_chunks, 1, junk)
        \o DataWriteTo(w.data_chunk, junk)

\* Wave::Save: the container after UpdateRiffFileSize and UpdateFmtValues,
\* and the file.
Save(w, junk) ==
    LET w1 == UpdateFmtValues(UpdateRiffFileSize(w))
    IN  [w |-> w1, bytes |-> SaveBytes(w1, junk)]

(***************************************************************************)
(* The files the model loads.  Each is laid out byte by byte in the Wave   *)
(* file layout: a RIFF header, then chunks of tag, size, payload and, for  *)
(* an odd size, one filler byte.                                           *)
(***************************************************************************)
\* "LIST" and "cue ": chunk types wave.h does not interpret.
TAG_LIST == U32Value(<<76, 73, 83, 84>>)
TAG_CUE == U32Value(<<99, 117, 101, 32>>)
\* "RIFX" and "AVI ": not the RIFF marker, not the WAVE marker.
TAG_RIFX == U32Value(<<82, 73, 70, 88>>)
TAG_AVI == U32Value(<<65, 86, 73, 32>>)

LE(x, width) == [i \in 1..width |-> (x \div Pow256(i - 1)) % 256]

\* A chunk: its header and its bytes (payload and filler) as given.
ChunkBytes(tag, size, bytes) == LE(tag, 4) \o LE(size, 4) \o bytes

FmtBytes(nch, rate, bps, align, bits) ==
    ChunkBytes(CHUNK_TYPE_FMT, 16,
               LE(1, 2) \o LE(nch, 2) \o LE(rate, 4) \o LE(bps, 4)
                   \o LE(align, 2) \o LE(bits, 2))

\* A format chunk that declares and carries ext after its 16 bytes.
FmtBytesExt(nch, rate, bps, align, bits, ext) ==
    ChunkBytes(CHUNK_TYPE_FMT, 16 + Len(ext),
               SubSeq(FmtBytes(nch, rate, bps, align, bits), 9, 24) \o ext)

\* A file: the RIFF header with the size of what follows it, then the body.
RiffFile(type, body) == LE(CHUNK_TYPE_RIFF, 4) \o LE(4 + Len(body), 4) \o LE(type, 4) \o body

WaveFile(body) == RiffFile(RIFF_TYPE_WAVE, body)

DataBytes(size, bytes) == ChunkBytes(CHUNK_TYPE_DATA, size, bytes)

InputFiles ==
    << \* 1: mono 16-bit, two samples
       WaveFile(FmtBytes(1, 22050, 44100, 2, 16) \o DataBytes(4, <<0, 128, 255, 127>>)),
       \* 2: stereo 8-bit, an odd-sized LIST chunk ahead of the data
       WaveFile(FmtBytes(2, 8000, 16000, 2, 8)
                  \o ChunkBytes(TAG_LIST, 3, <<7, 8, 9, 0>>)
                  \o DataBytes(4, <<10, 20, 30, 40>>)),
       \* 3: mono 8-bit, odd data size, chunks before and after the data
       WaveFile(FmtBytes(1, 8000, 8000, 1, 8)
                  \o ChunkBytes(TAG_LIST, 2, <<5, 6>>)
                  \o DataBytes(3, <<1, 2, 3, 0>>)
                  \o ChunkBytes(TAG_CUE, 1, <<77, 0>>)),
       \* 4: mono 8-bit, an odd-sized chunk whose filler byte is not zero
       WaveFile(FmtBytes(1, 8000, 8000, 1, 8)
                  \o ChunkBytes(TAG_LIST, 1, <<7, 255>>)
                  \o DataBytes(2, <<10, 20>>)),
       \* 5: mono 32-bit, one sample
       WaveFile(FmtBytes(1, 8000, 32000, 4, 32) \o DataBytes(4, <<1, 2, 3, 196>>)),
       \* 6: stereo 24-bit, one sample
       WaveFile(FmtBytes(2, 8000, 48000, 6, 24)
                  \o DataBytes(6, <<1, 2, 3, 4, 5, 134>>)),
       \* 7: block_align and bytes_per_sec that do not fit the other fields
       WaveFile(FmtBytes(2, 8000, 1234, 2, 16) \o DataBytes(4, <<1, 2, 3, 4>>)),
       \* 8: 32768 channels of 16 bits: nchannels * 2 does not fit 16 bits
       WaveFile(FmtBytes(32768, 3, 196608, 0, 16) \o DataBytes(0, <<>>)),
       \* 9: the RIFF marker is missing
       LE(TAG_RIFX, 4) \o LE(36, 4) \o LE(RIFF_TYPE_WAVE, 4)
           \o FmtBytes(1, 8000, 8000, 1, 8) \o DataBytes(0, <<>>),
       \* 10: a RIFF file that is not a WAVE file
       RiffFile(TAG_AVI, FmtBytes(1, 8000, 8000, 1, 8) \o DataBytes(2, <<1, 2>>)),
       \* 11: the data chunk declares 4 bytes and the file ends after 2
       WaveFile(FmtBytes(1, 8000, 16000, 2, 16)) \o LE(CHUNK_TYPE_DATA, 4)
           \o LE(4, 4) \o <<9, 8>>,
       \* 12: no data chunk, and the file ends inside a chunk type
       WaveFile(FmtBytes(2, 8000, 32000, 4, 16)) \o <<100, 97>>,
       \* 13: an empty file
       << >>,
       \* 14: a format chunk of size 18 (cbSize = 0) and nothing after it
       WaveFile(FmtBytesExt(1, 8000, 8000, 1, 8, <<0, 0>>)),
       \* 15: a format chunk of size 40 whose 24 extension bytes are cbSize
       \* 22, 8 valid bits, channel mask 4 and a 16-byte format identifier,
       \* then one 8-bit mono data chunk of two samples
       WaveFile(FmtBytesExt(1, 8000, 8000, 1, 8,
                            <<22, 0, 8, 0, 4, 0, 0, 0,
                              1, 0, 0, 0, 0, 0, 16, 0,
                              4, 0, 0, 0, 0, 56, 155, 113>>)
                \o DataBytes(2, <<7, 250>>))
    >>

NoFile == [exists |-> FALSE, bytes |-> <<>>]
File(bytes) == [exists |-> TRUE, bytes |-> bytes]

\* The sample values the model writes, as fractions in [-1, 1].
Values ==
    { [num |-> -1, den |-> 1], [num |-> -1, den |-> 2], [num |-> 0, den |-> 1],
      [num |-> 1, den |-> 8], [num |-> 1, den |-> 1] }

\* The (nchannels, bits_per_sample) a caller assigns to the public fields.
FmtChoices == { <<2, 16>>, <<1, 24>>, <<2, 32>> }

(***************************************************************************)
(* The state machine.  wave is the Wave object, disk the two files "f"     *)
(* (the input, never written) and "g" (what Save writes), ret what the     *)
(* last GetSample returned.  last records the operation just taken, ops    *)
(* counts operations, and gsrc remembers, for the file Save wrote, the     *)
(* container it was written from when that container came straight from    *)
(* Load("f").  file is the std::ifstream of a Load that is under way and   *)
(* the place that Load has reached; it matters only where Load is taken     *)
(* one loop iteration at a time (SpecSteps).                                *)
(***************************************************************************)
FileNames == {"f", "g"}

NoRet == [kind |-> "none"]
NoValue == [num |-> 0, den |-> 1]
NoSource == [valid |-> FALSE, A |-> NewWave]

Op(op, name, offset, value, ok, fresh, fault) ==
    [op |-> op, name |-> name, offset |-> offset, value |-> value,
     ok |-> ok, fresh |-> fresh, fault |-> fault, afterSet |-> FALSE]

\* No Load is under way: no std::ifstream exists.
NoStream == [pc |-> "idle", s |-> OpenIn(<<>>), name |-> "-", load_data |-> TRUE,
             deleted |-> FALSE]

Init ==
    /\ wave = NewWave
    /\ \E k \in 0..Len(InputFiles) :
          disk = [n \in FileNames |->
                    IF n = "f" /\ k > 0 THEN File(InputFiles[k]) ELSE NoFile]
    /\ ret = NoRet
    /\ last = Op("init", "-", 0, NoValue, TRUE, TRUE, FALSE)
    /\ ops = 0
    /\ gsrc = NoSource
    /\ file = NoStream

\* What Load may leave, r0 being its result with zeroes for the
\* uninitialized byte of ReadLittleEndian and for the fill of a new buffer:
\* these two matter only when a read came up short.
LoadOutcomes(r0, w, bytes, load_data) ==
    IF r0.clean THEN {r0}
    ELSE {LoadStream(w, OpenIn(bytes), load_data, g, p) : g \in Garbage, p \in Fills}

\* Wave::Load(filename) and Wave::LoadMetadata(filename): nothing happens
\* when the file cannot be opened.
LoadFile(name, load_data, opname) ==
    /\ ops < MaxOps
    /\ IF ~disk[name].exists
       THEN /\ wave' = wave
            /\ last' = Op(opname, name, 0, NoValue, FALSE, wave = NewWave, FALSE)
       ELSE \E r \in LoadOutcomes(LoadStream(wave, OpenIn(disk[name].bytes),
                                             load_data, 0, 0),
                                  wave, disk[name].bytes, load_data) :
               /\ wave' = r.w
               /\ last' = Op(opname, name, 0, NoValue, r.ok, wave = NewWave,
                             r.deleted)
    /\ ret' = NoRet
    /\ ops' = ops + 1
    /\ UNCHANGED <<disk, gsrc, file>>

DoLoad == \E name \in FileNames : LoadFile(name, TRUE, "Load")

DoLoadMetadata == \E name \in FileNames : LoadFile(name, FALSE, "LoadMetadata")

\* Wave::Save("g").
DoSave ==
    /\ ops < MaxOps
    /\ \E junk \in IF WritesThroughBadPointer(wave.data_chunk) THEN Fills ELSE {0} :
          LET r == Save(wave, junk)
          IN  /\ wave' = r.w
              /\ disk' = [disk EXCEPT !["g"] = File(r.bytes)]
              /\ last' = Op("Save", "g", 0, NoValue, TRUE, FALSE,
                            WritesThroughBadPointer(wave.data_chunk))
    /\ gsrc' = IF last.op = "Load" /\ last.name = "f" /\ last.ok /\ ~last.fault
               THEN [valid |-> TRUE, A |-> wave]
               ELSE NoSource
    /\ ret' = NoRet
    /\ ops' = ops + 1
    /\ UNCHANGED file

\* Wave::Resize(new_nsamples)
DoResize ==
    /\ ops < MaxOps
    /\ \E n \in 0..MaxResize :
       \E p \in IF ResizeLength(wave, n) > 0 THEN Fills ELSE {0} :
          /\ wave' = Resize(wave, n, p)
          /\ last' = Op("Resize", "-", n, NoValue, TRUE, FALSE,
                        DeletesFreed(wave.data_chunk))
    /\ ret' = NoRet
    /\ ops' = ops + 1
    /\ UNCHANGED <<disk, gsrc, file>>

\* The caller assigns fmt_chunk.nchannels and fmt_chunk.bits_per_sample.
DoAssignFmt ==
    /\ ops < MaxOps
    /\ \E c \in FmtChoices :
          /\ wave' = [wave EXCEPT !.fmt_chunk.nchannels = c[1],
                                  !.fmt_chunk.bits_per_sample = c[2]]
          /\ last' = Op("AssignFmt", "-", 0, NoValue, TRUE, FALSE, FALSE)
    /\ ret' = NoRet
    /\ ops' = ops + 1
    /\ UNCHANGED <<disk, gsrc, file>>

\* Whether GetSample/SetSample at offset leaves defined behaviour: it is in
\* range and shifts too far or touches bytes outside the buffer.
SampleFault(w, offset) ==
    /\ offset < nsamples(w)
    /\ ~SupportedSlice(w) \/ ~AccessInBuffer(w, offset)

\* Wave::SetSample(offset, value)
DoSetSample ==
    /\ ops < MaxOps
    /\ \E offset \in 0..MaxResize, value \in Values :
          /\ wave' = IF SampleFault(wave, offset) /\ ~SupportedSlice(wave) THEN wave
                     ELSE SetSample(wave, offset, value)
          /\ last' = Op("SetSample", "-", offset, value, offset < nsamples(wave),
                        FALSE, SampleFault(wave, offset))
    /\ ret' = NoRet
    /\ ops' = ops + 1
    /\ UNCHANGED <<disk, gsrc, file>>

\* Wave::GetSample(offset)
DoGetSample ==
    /\ \E offset \in 0..MaxResize :
          /\ ret' = IF SampleFault(wave, offset) THEN [kind |-> "undefined"]
                    ELSE GetSample(wave, offset)
          /\ last' = [Op("GetSample", "-", offset, last.value,
                         offset < nsamples(wave), FALSE, SampleFault(wave, offset))
                      EXCEPT !.afterSet = /\ last.op = "SetSample"
                                          /\ last.offset = offset
                                          /\ last.ok /\ ~last.fault]
    /\ UNCHANGED <<wave, disk, ops, gsrc, file>>

\* A new Wave replaces the old one: ~Wave runs ~DataChunk on every chunk.
DoNewWave ==
    /\ wave' = NewWave
    /\ last' = Op("NewWave", "-", 0, NoValue, TRUE, FALSE,
                  DeletesFreed(wave.data_chunk))
    /\ ret' = NoRet
    /\ UNCHANGED <<disk, ops, gsrc, file>>

\* The container and its files: loading, saving, resizing, field
\* assignment and construction.
Next ==
    \/ DoLoad
    \/ DoLoadMetadata
    \/ DoSave
    \/ DoResize
    \/ DoAssignFmt
    \/ DoNewWave

Spec == Init /\ [][Next]_vars

\* Sample access on loaded, resized and reconfigured containers, with at
\* most MaxEdits counted operations.
NextSamples ==
    \/ ops < MaxEdits /\ DoLoad
    \/ ops < MaxEdits /\ DoLoadMetadata
    \/ ops < MaxEdits /\ DoResize
    \/ ops < MaxEdits /\ DoAssignFmt
    \/ ops < MaxEdits /\ DoSetSample
    \/ DoGetSample

SpecSamples == Init /\ [][NextSamples]_vars

(***************************************************************************)
(* GetValue on every slice: a mono file of one sample of 1 to 4 bytes is   *)
(* loaded and the sample is read.                                          *)
(***************************************************************************)
\* The values a byte of the slice takes.
SliceBytes == {0, 1, 127, 128, 255}

\* A mono file of one sample that is the slice `things`.
SliceFile(things) ==
    WaveFile(FmtBytes(1, 8000, 8000 * Len(things), Len(things), 8 * Len(things))
             \o DataBytes(Len(things),
                          things \o (IF Len(things) % 2 = 1 THEN <<0>> ELSE <<>>)))

SliceFiles ==
    UNION {{SliceFile(things) : things \in [1..sizeof_thing -> SliceBytes]} :
              sizeof_thing \in 1..4}

InitDecode ==
    /\ wave = NewWave
    /\ \E bytes \in SliceFiles :
          disk = [n \in FileNames |-> IF n = "f" THEN File(bytes) ELSE NoFile]
    /\ ret = NoRet
    /\ last = Op("init", "-", 0, NoValue, TRUE, TRUE, FALSE)
    /\ ops = 0
    /\ gsrc = NoSource
    /\ file = NoStream

NextDecode ==
    \/ DoLoad
    \/ DoGetSample

SpecDecode == InitDecode /\ [][NextDecode]_vars

(***************************************************************************)
(* Load, one loop iteration at a time.  StepBegin is Load(filename) or     *)
(* LoadMetadata(filename) up to the loop, StepIteration one iteration of   *)
(* `while (file.good())`, StepLoopEnd the exit through the loop condition. *)
(***************************************************************************)
\* The largest chunk_size the loop is followed through.
MaxChunk == 255

\* The files: every model file whole, and every prefix of four of them.
Truncated == {3, 10, 11, 15}

StepInputs ==
    {InputFiles[k] : k \in 1..Len(InputFiles)}
        \cup UNION {{SubSeq(InputFiles[k], 1, n) : n \in 0..Len(InputFiles[k])} :
                       k \in Truncated}

\* Wave::Load up to the loop, after riff_chunk.ReadFrom(file) gave r.
BeginWave(w, r) ==
    [w |-> [w EXCEPT !.riff_chunk = r.c], s |-> r.s,
     fail |-> r.c.riff_type /= RIFF_TYPE_WAVE \/ ~r.s.good]

\* Wave::Load up to the loop, after the first chunk type t was read.
BeginRiff(w, t, g) ==
    IF t.val /= CHUNK_TYPE_RIFF THEN [w |-> w, s |-> t.s, fail |-> TRUE]
    ELSE BeginWave(w, RiffReadFrom(w.riff_chunk, t.s, g))

\* What an iteration leaves: the Wave, the stream, whether it left the loop
\* (brk) and whether delete[] ran on a released buffer.  These are the
\* three cases of the switch.
IterFmt(w, r) ==
    [w |-> [w EXCEPT !.fmt_chunk = r.c], s |-> r.s, brk |-> FALSE,
     deleted |-> FALSE]

IterData(w, r) ==
    [w |-> [w EXCEPT !.data_chunk = r.c], s |-> r.s, brk |-> FALSE,
     deleted |-> DeletesFreed(w.data_chunk)]

IterOther(w, r) ==
    [w |-> [w EXCEPT !.other_chunks = Append(w.other_chunks, DataCopy(r.c))],
     s |-> r.s, brk |-> FALSE, deleted |-> FALSE]

\* One iteration after the chunk type t was read and file.good() held.
IterSwitch(w, t, load_data, g, p) ==
    IF t.val = CHUNK_TYPE_FMT THEN IterFmt(w, FmtReadFrom(w.fmt_chunk, t.s, g))
    ELSE IF t.val = CHUNK_TYPE_DATA
    THEN IterData(w, IF load_data THEN DataReadFrom(w.data_chunk, t.s, g, p)
                     ELSE DataSkip(w.data_chunk, t.s, g, p))
    ELSE IterOther(w, DataReadFrom(NewDataChunk(t.val), t.s, g, p))

\* One iteration after ReadLittleEndian(file, chunk_type) gave t.
Iteration(w, t, load_data, g, p) ==
    IF ~t.s.good THEN [w |-> w, s |-> t.s, brk |-> TRUE, deleted |-> FALSE]
    ELSE IterSwitch(w, t, load_data, g, p)

\* The chunk_size Chunk::ReadFrom reads after the chunk type t.
SizeAfter(t, g) == ReadLittleEndian(t.s, 4, g).val

\* The uninitialized bytes with which the iteration at s reads no
\* chunk_size above MaxChunk.
Followed(t, g) == ~t.s.good \/ SizeAfter(t, g) <= MaxChunk

FollowedGarbage(s) == {g \in Garbage : Followed(ReadLittleEndian(s, 4, g), g)}

OpName(load_data) == IF load_data THEN "Load" ELSE "LoadMetadata"

Finished(ok) ==
    Op(OpName(file.load_data), file.name, 0, NoValue, ok, TRUE, file.deleted)

InitSteps ==
    /\ wave = NewWave
    /\ \E bytes \in StepInputs :
          disk = [n \in FileNames |-> IF n = "f" THEN File(bytes) ELSE NoFile]
    /\ ret = NoRet
    /\ last = Op("init", "-", 0, NoValue, TRUE, TRUE, FALSE)
    /\ ops = 0
    /\ gsrc = NoSource
    /\ file = NoStream

\* Load(filename) or LoadMetadata(filename) as far as the loop.
StepBegin ==
    /\ file.pc = "idle"
    /\ \E name \in FileNames, load_data \in BOOLEAN :
          IF ~disk[name].exists
          THEN /\ file' = [file EXCEPT !.pc = "done", !.name = name,
                                       !.load_data = load_data]
               /\ last' = Op(OpName(load_data), name, 0, NoValue, FALSE, TRUE, FALSE)
               /\ wave' = wave
          ELSE \E b \in {BeginRiff(wave,
                                   ReadLittleEndian(OpenIn(disk[name].bytes), 4, g),
                                   g) : g \in Garbage} :
                  /\ wave' = b.w
                  /\ file' = [pc |-> IF b.fail THEN "done" ELSE "loop", s |-> b.s,
                              name |-> name, load_data |-> load_data,
                              deleted |-> FALSE]
                  /\ last' = IF b.fail
                             THEN Op(OpName(load_data), name, 0, NoValue, FALSE,
                                     TRUE, FALSE)
                             ELSE last
    /\ UNCHANGED <<disk, ret, ops, gsrc>>

\* One iteration of `while (file.good())`; a break goes on to file.close().
StepIteration ==
    /\ file.pc = "loop"
    /\ file.s.good
    /\ \E r \in UNION {{Iteration(wave, t, file.load_data, g, p) :
                             t \in {ReadLittleEndian(file.s, 4, g)}} :
                          g \in FollowedGarbage(file.s), p \in Fills} :
          /\ wave' = r.w
          /\ file' = [file EXCEPT !.s = r.s,
                                  !.pc = IF r.brk THEN "done" ELSE "loop",
                                  !.deleted = file.deleted \/ r.deleted]
          /\ last' = IF r.brk THEN Finished(TRUE) ELSE last
    /\ UNCHANGED <<disk, ret, ops, gsrc>>

\* A loop condition that never lets the loop end.
StepLoopStuck ==
    /\ file.pc = "loop"
    /\ ~file.s.good
    /\ UNCHANGED vars

\* file.good() fails at the loop condition: file.close().
StepLoopEnd ==
    /\ file.pc = "loop"
    /\ ~file.s.good
    /\ file' = [file EXCEPT !.pc = "done"]
    /\ last' = Finished(TRUE)
    /\ UNCHANGED <<wave, disk, ret, ops, gsrc>>

NextSteps ==
    \/ StepBegin
    \/ StepIteration
    \/ StepLoopEnd

\* Load is one call on one thread: a step that can be taken is taken.
SpecSteps == InitSteps /\ [][NextSteps]_vars /\ WF_vars(NextSteps)

(***************************************************************************)
(* The Wave file layout, read off the bytes of a file without the loader:  *)
(* twelve bytes of RIFF header, then sections of tag, size, payload and,   *)
(* after an odd-sized payload, one filler byte.                            *)
(***************************************************************************)
U16At(bytes, at) == bytes[at] + 256 * bytes[at + 1]
U32At(bytes, at) == U16At(bytes, at) + 65536 * U16At(bytes, at + 2)

RoundUpEven(n) == IF n % 2 = 0 THEN n ELSE n + 1

\* Whether sections tile bytes exactly from index at on.  (A size of 2^31
\* or more, its top byte 128 or more, is beyond any file here.)
RECURSIVE Framed(_, _)
Framed(bytes, at) ==
    IF at = Len(bytes) + 1 THEN TRUE
    ELSE IF at + 7 > Len(bytes) THEN FALSE
    ELSE IF bytes[at + 7] >= 128 THEN FALSE
    ELSE LET end == at + 8 + RoundUpEven(U32At(bytes, at + 4))
         IN  end <= Len(bytes) + 1 /\ Framed(bytes, end)

\* The sections of a framed file: tag, size and the index of the tag.
RECURSIVE SectionsFrom(_, _)
SectionsFrom(bytes, at) ==
    IF at > Len(bytes) THEN <<>>
    ELSE LET size == U32At(bytes, at + 4)
         IN  <<[tag |-> U32At(bytes, at), size |-> size, at |-> at]>>
                 \o SectionsFrom(bytes, at + 8 + RoundUpEven(size))

Sections(bytes) == SectionsFrom(bytes, 13)

Payload(bytes, sec) == SubSeq(bytes, sec.at + 8, sec.at + 7 + sec.size)

\* The payload with its filler byte.
Stored(bytes, sec) == SubSeq(bytes, sec.at + 8, sec.at + 7 + RoundUpEven(sec.size))

IsUnknown(sec) == sec.tag /= CHUNK_TYPE_FMT /\ sec.tag /= CHUNK_TYPE_DATA
IsFmt(sec) == sec.tag = CHUNK_TYPE_FMT
IsData(sec) == sec.tag = CHUNK_TYPE_DATA

\* A RIFF/WAVE file made of whole sections, its format sections of size 16.
FramedWave(bytes) ==
    /\ Len(bytes) >= 12
    /\ U32At(bytes, 1) = CHUNK_TYPE_RIFF
    /\ U32At(bytes, 9) = RIFF_TYPE_WAVE
    /\ Framed(bytes, 13)
    /\ \A k \in 1..Len(Sections(bytes)) :
          IsFmt(Sections(bytes)[k]) => Sections(bytes)[k].size = 16

\* A well-formed file: the size in the RIFF header is that of what follows
\* it, one uncompressed format section comes first, its derived fields fit
\* the others, and there is one data section.
WellFormed(bytes) ==
    /\ FramedWave(bytes)
    /\ U32At(bytes, 5) = Len(bytes) - 8
    /\ LET S == Sections(bytes)
       IN  /\ Len(S) >= 2
           /\ IsFmt(S[1])
           /\ Len(SelectSeq(S, IsFmt)) = 1
           /\ Len(SelectSeq(S, IsData)) = 1
           /\ U16At(bytes, S[1].at + 8) = COMPRESSION_NONE
           /\ U16At(bytes, S[1].at + 10) >= 1
           /\ U16At(bytes, S[1].at + 22) \in {8, 16, 24, 32}
           /\ U16At(bytes, S[1].at + 20) =
                 U16At(bytes, S[1].at + 10) * (U16At(bytes, S[1].at + 22) \div 8)
           /\ U32At(bytes, S[1].at + 16) =
                 U32At(bytes, S[1].at + 12) * U16At(bytes, S[1].at + 20)

\* The file without its unknown sections.
RECURSIVE KnownBytes(_, _, _)
KnownBytes(bytes, S, k) ==
    IF k > Len(S) THEN <<>>
    ELSE (IF IsUnknown(S[k]) THEN <<>>
          ELSE SubSeq(bytes, S[k].at, S[k].at + 7 + RoundUpEven(S[k].size)))
         \o KnownBytes(bytes, S, k + 1)

WithoutUnknown(bytes) == SubSeq(bytes, 1, 12) \o KnownBytes(bytes, Sections(bytes), 1)

\* sample_count: the data size over block_align, 0 when either is 0.
SampleCount(w) ==
    IF w.data_chunk.chunk_size = 0 \/ w.fmt_chunk.block_align = 0 THEN 0
    ELSE w.data_chunk.chunk_size \div w.fmt_chunk.block_align

SameFormat(a, b) ==
    /\ a.compression = b.compression
    /\ a.nchannels = b.nchannels
    /\ a.sample_rate = b.sample_rate
    /\ a.bytes_per_sec = b.bytes_per_sec
    /\ a.block_align = b.block_align
    /\ a.bits_per_sample = b.bits_per_sample

(***************************************************************************)
(* Round trip.                                                             *)
(***************************************************************************)
\* The state right after Load("g") into a new Wave, "g" being what Save
\* wrote from the container Load("f") produced.
RoundTripDone ==
    /\ last.op = "Load" /\ last.name = "g" /\ last.fresh
    /\ gsrc.valid
    /\ disk["f"].exists

\* C1: for a well-formed file f, Load(f), Save(g), then Load(g) into a new
\* Wave succeeds and gives the format fields, the sample count and the
\* value of GetSample(i) for every i below the sample count that Load(f)
\* gave.
C1_RoundTrip ==
    (RoundTripDone /\ WellFormed(disk["f"].bytes))
    => /\ last.ok
       /\ SameFormat(wave.fmt_chunk, gsrc.A.fmt_chunk)
       /\ nsamples(wave) = nsamples(gsrc.A)
       /\ \A i \in 0..(nsamples(gsrc.A) - 1) :
             /\ GetSample(gsrc.A, i).kind = "avg"
             /\ GetSample(wave, i) = GetSample(gsrc.A, i)

\* A round trip of a well-formed file with samples and an unknown section.
C1_Witness ==
    /\ RoundTripDone /\ WellFormed(disk["f"].bytes)
    /\ last.ok
    /\ nsamples(wave) > 0
    /\ Len(wave.other_chunks) > 0
    /\ wave.fmt_chunk /= NewFmtChunk

(***************************************************************************)
(* Unknown sections on load.                                               *)
(***************************************************************************)
\* The entry of other_chunks that stands for section sec of bytes.
CarriesSection(c, bytes, sec) ==
    /\ c.chunk_type = sec.tag
    /\ c.chunk_size = sec.size
    /\ Len(c.data_) >= sec.size
    /\ SubSeq(c.data_, 1, sec.size) = Payload(bytes, sec)

\* C2: Load of a file of whole sections appends to other_chunks, in the
\* order met, one entry per section that is neither "fmt " nor "data", with
\* the section's tag, size and exactly its payload, for even and odd sizes;
\* the format and data chunks come out as they do from the same file
\* without the unknown sections, the data chunk with the size and bytes of
\* the file's data section.
C2_UnknownPassThrough ==
    [][(/\ last'.op = "Load"
        /\ disk[last'.name].exists
        /\ FramedWave(disk[last'.name].bytes)
        /\ ~last'.fault)
       => LET B == disk[last'.name].bytes
              S == Sections(B)
              U == SelectSeq(S, IsUnknown)
              D == SelectSeq(S, IsData)
              plain == LoadStream(wave, OpenIn(WithoutUnknown(B)), TRUE, 0, 0).w
          IN  /\ last'.ok
              /\ Len(wave'.other_chunks) = Len(wave.other_chunks) + Len(U)
              /\ \A k \in 1..Len(wave.other_chunks) :
                    wave'.other_chunks[k] = wave.other_chunks[k]
              /\ \A k \in 1..Len(U) :
                    CarriesSection(wave'.other_chunks[Len(wave.other_chunks) + k], B, U[k])
              /\ wave'.fmt_chunk = plain.fmt_chunk
              /\ wave'.data_chunk = plain.data_chunk
              /\ Len(D) > 0 =>
                    /\ wave'.data_chunk.chunk_size = D[Len(D)].size
                    /\ wave'.data_chunk.data_ = Stored(B, D[Len(D)])
      ]_vars

\* A file loaded whose odd-sized unknown section comes right before the
\* data section.
C2_Witness ==
    /\ last.op = "Load" /\ last.ok /\ ~last.fault
    /\ disk[last.name].exists
    /\ FramedWave(disk[last.name].bytes)
    /\ LET S == Sections(disk[last.name].bytes)
       IN  \E k \in 1..(Len(S) - 1) :
              /\ IsUnknown(S[k]) /\ S[k].size % 2 = 1
              /\ IsData(S[k + 1]) /\ S[k + 1].size > 0
    /\ Len(wave.other_chunks) > 0
    /\ wave.data_chunk.chunk_size > 0

(***************************************************************************)
(* Sample access.                                                          *)
(***************************************************************************)
\* C3: for an offset at or past the sample count, GetSample returns 0 and
\* changes nothing, and SetSample changes no byte of the audio buffer and no
\* other field of the container.
C3_OutOfRangeNoOp ==
    [][/\ (last'.op = "GetSample" /\ last'.offset >= SampleCount(wave))
             => (ret'.kind = "zero" /\ wave' = wave)
       /\ (last'.op = "SetSample" /\ last'.offset >= SampleCount(wave))
             => wave' = wave
      ]_vars

\* SetSample just past the last sample of a container that has samples.
C3_Witness ==
    /\ last.op = "SetSample"
    /\ SampleCount(wave) > 0
    /\ last.offset >= SampleCount(wave)
    /\ wave.data_chunk.ptr = "live"

\* GetSample right after SetSample at the same, in-range offset, both
\* inside the buffer.
SetThenGet == last.op = "GetSample" /\ last.afterSet

\* |r - v| <= 2 / max_thing_value, for r = (total/nthings / max) * 2 - 1
\* and v = num/den: |2*total*den - (num+den)*nthings*max| <= 2*nthings*den.
WithinOneStep(r, v, sizeof_thing) ==
    /\ r.kind = "avg"
    /\ LET lhs  == MulSmallD(Widen(r.total, SizeofULL + 4), 2 * v.den)
           rhs  == MulSmallD(MulSmallD(Widen(max_thing_value(sizeof_thing),
                                             SizeofULL + 4), r.nthings),
                             v.num + v.den)
           diff == IF LessD(lhs, rhs) THEN SubD(rhs, lhs) ELSE SubD(lhs, rhs)
       IN  ~LessD(Digits(2 * r.nthings * v.den, SizeofULL + 4), diff)

\* r = v.
ExactlyValue(r, v, sizeof_thing) ==
    /\ r.kind = "avg"
    /\ EqD(MulSmallD(Widen(r.total, SizeofULL + 4), 2 * v.den),
           MulSmallD(MulSmallD(Widen(max_thing_value(sizeof_thing), SizeofULL + 4),
                               r.nthings),
                     v.num + v.den))

\* C4: with bits_per_sample 8, 16, 24 or 32, an in-range offset and v in
\* [-1, 1], SetSample(i, v) then GetSample(i) returns a value within one
\* quantization step 2 / (2^bits_per_sample - 1) of v.
C4_ValueRange ==
    (SetThenGet /\ wave.fmt_chunk.bits_per_sample \in {8, 16, 24, 32})
    => WithinOneStep(ret, last.value, bytes_per_sample_slice(wave))

\* 32 bits, one channel, a value below zero: what GetSample returns is not
\* within one step of it.
C4_Witness ==
    /\ SetThenGet
    /\ wave.fmt_chunk.bits_per_sample = 32
    /\ wave.fmt_chunk.nchannels = 1
    /\ last.value = [num |-> -1, den |-> 2]
    /\ ret.kind = "avg"
    /\ ~WithinOneStep(ret, last.value, 4)

\* The same for 8, 16 and 24 bits only.
C4_ValueRangeUpTo24 ==
    (SetThenGet /\ wave.fmt_chunk.bits_per_sample \in {8, 16, 24})
    => WithinOneStep(ret, last.value, bytes_per_sample_slice(wave))

\* floor((v + 1) / 2 * (2^(8*sizeof_thing) - 1)), for sizeof_thing up to 3.
Code(v, sizeof_thing) ==
    ((v.num + v.den) * (Pow256(sizeof_thing) - 1)) \div (2 * v.den)

\* The bytes of a slice holding Code: as it is for one byte, offset by half
\* the range (two's complement) for more.
CodeBytes(v, sizeof_thing) ==
    LE(IF sizeof_thing = 1 THEN Code(v, sizeof_thing)
       ELSE (Code(v, sizeof_thing) + (Pow256(sizeof_thing) \div 2))
                % Pow256(sizeof_thing),
       sizeof_thing)

\* The k-th channel slice (k = 0, 1, ...) of the sample at offset.
Slice(w, offset, k) ==
    SubSeq(w.data_chunk.data_,
           AccessLo(w, offset) + k * bytes_per_sample_slice(w) + 1,
           AccessLo(w, offset) + (k + 1) * bytes_per_sample_slice(w))

\* C5 as stated: with two channels, SetSample(i, v) then GetSample(i)
\* returns v.
C5_CollapseExact ==
    (SetThenGet /\ wave.fmt_chunk.nchannels = 2)
    => ExactlyValue(ret, last.value, bytes_per_sample_slice(wave))

\* C5, amended: with two channels and slices of 1 to 4 bytes, SetSample(i, v)
\* leaves the same bytes in both slices of sample i; for slices of 1 to 3
\* bytes these are the bytes of floor((v+1)/2 * max), and GetSample(i)
\* returns 2 * floor((v+1)/2 * max) / max - 1: within one quantization step
\* of v, and v itself exactly when (v+1)/2 * max is a whole number.
C5_CollapseQuantized ==
    (SetThenGet /\ wave.fmt_chunk.nchannels = 2 /\ SupportedSlice(wave))
    => LET size == bytes_per_sample_slice(wave)
           v    == last.value
       IN  /\ Slice(wave, last.offset, 0) = Slice(wave, last.offset, 1)
           /\ size <= 3 =>
                 /\ Slice(wave, last.offset, 0) = CodeBytes(v, size)
                 /\ ret.kind = "avg"
                 /\ ret.nthings = 2
                 /\ ret.total = Digits(2 * Code(v, size), SizeofULL)
                 /\ WithinOneStep(ret, v, size)
                 /\ ExactlyValue(ret, v, size)
                       <=> ((v.num + v.den) * (Pow256(size) - 1)) % (2 * v.den) = 0

\* Two channels of 16 bits, a value that falls between two codes.
C5_Witness ==
    /\ SetThenGet
    /\ wave.fmt_chunk.nchannels = 2
    /\ wave.fmt_chunk.bits_per_sample = 16
    /\ last.value = [num |-> 0, den |-> 1]
    /\ ret.kind = "avg"
    /\ ~ExactlyValue(ret, last.value, 2)

(***************************************************************************)
(* Files written by Save.                                                  *)
(***************************************************************************)
\* The chunks DataChunk::WriteTo is called on.
RawChunks(w) == {w.data_chunk} \cup {w.other_chunks[k] : k \in 1..Len(w.other_chunks)}

\* C6: every DataChunk with a buffer behind its size writes, after the 8
\* bytes of header, chunk_size rounded up to even bytes, and when chunk_size
\* is odd the last byte written is zero.
C6_Alignment ==
    \A c \in RawChunks(wave) :
        ~WritesThroughBadPointer(c)
        => LET out == DataWriteTo(c, 0)
           IN  /\ Len(out) = 8 + RoundUpEven(c.chunk_size)
               /\ c.chunk_size % 2 = 1 => out[Len(out)] = 0

\* A loaded chunk of odd size whose last buffer byte is not zero.
C6_Witness ==
    \E c \in RawChunks(wave) :
        /\ c.ptr = "live"
        /\ c.chunk_size % 2 = 1
        /\ c.data_[Len(c.data_)] /= 0
        /\ last.op = "Load"

\* C7: in the file Save wrote, the size in the RIFF header is the length of
\* the file minus 8.
C7_RiffSize ==
    last.op = "Save"
    => U32At(disk["g"].bytes, 5) = Len(disk["g"].bytes) - 8

\* Save of a new Wave: 44 bytes, the RIFF header says 44.
C7_Witness ==
    /\ last.op = "Save"
    /\ wave.other_chunks = <<>>
    /\ wave.data_chunk = NewDataChunk(CHUNK_TYPE_DATA)
    /\ Len(disk["g"].bytes) = 44
    /\ U32At(disk["g"].bytes, 5) = 44

\* C8: a Save right after a Save writes the same file and leaves every
\* field of the container as it was.
C8_SaveIdempotent ==
    [][(last.op = "Save" /\ last'.op = "Save")
       => (disk' = disk /\ wave' = wave)]_vars

\* A Save that wrote data_length_ bytes with no buffer behind data_.
C8_Witness ==
    /\ last.op = "Save"
    /\ last.fault
    /\ WritesThroughBadPointer(wave.data_chunk)

RECURSIVE ChunksLayout(_, _)
ChunksLayout(chunks, k) ==
    IF k > Len(chunks) THEN <<>>
    ELSE LE(chunks[k].chunk_type, 4) \o LE(chunks[k].chunk_size, 4)
             \o chunks[k].data_ \o ChunksLayout(chunks, k + 1)

\* RIFF, size, WAVE-or-other type; "fmt ", size, the six fields.
HeadLayout(w) ==
    LE(CHUNK_TYPE_RIFF, 4) \o LE(w.riff_chunk.chunk_size, 4)
        \o LE(w.riff_chunk.riff_type, 4)
        \o LE(CHUNK_TYPE_FMT, 4) \o LE(w.fmt_chunk.chunk_size, 4)
        \o LE(w.fmt_chunk.compression, 2) \o LE(w.fmt_chunk.nchannels, 2)
        \o LE(w.fmt_chunk.sample_rate, 4) \o LE(w.fmt_chunk.bytes_per_sec, 4)
        \o LE(w.fmt_chunk.block_align, 2) \o LE(w.fmt_chunk.bits_per_sample, 2)

\* C9: Save leaves other_chunks as they are and writes the RIFF header and
\* type, the format header and its six fields, every entry of other_chunks
\* in stored order with its tag, size and buffer bytes, and last the data
\* chunk: its tag, its size and data_length_ bytes, the buffer's when there
\* is one.
C9_SaveOrder ==
    [][last'.op = "Save"
       => LET out    == disk'["g"].bytes
              head   == HeadLayout(wave')
              extras == ChunksLayout(wave.other_chunks, 1)
              at     == Len(head) + Len(extras)
          IN  /\ wave'.other_chunks = wave.other_chunks
              /\ wave'.data_chunk = wave.data_chunk
              /\ Len(out) = at + 8 + wave.data_chunk.data_length_
              /\ SubSeq(out, 1, Len(head)) = head
              /\ SubSeq(out, Len(head) + 1, at) = extras
              /\ SubSeq(out, at + 1, at + 8) =
                    LE(CHUNK_TYPE_DATA, 4) \o LE(wave.data_chunk.chunk_size, 4)
              /\ wave.data_chunk.ptr = "live" =>
                    SubSeq(out, at + 9, Len(out)) = wave.data_chunk.data_
      ]_vars

\* Save of a container loaded from a file with an unknown section after its
\* data section: in the file written, the data section is the last and the
\* unknown sections keep their order.
C9_Witness ==
    /\ last.op = "Save" /\ gsrc.valid
    /\ FramedWave(disk["f"].bytes) /\ FramedWave(disk["g"].bytes)
    /\ LET F == Sections(disk["f"].bytes)
           G == Sections(disk["g"].bytes)
       IN  /\ \E k \in 2..Len(F) : IsUnknown(F[k]) /\ IsData(F[k - 1])
           /\ Len(SelectSeq(F, IsUnknown)) >= 2
           /\ IsData(G[Len(G)])
           /\ [k \in 1..Len(SelectSeq(G, IsUnknown)) |-> SelectSeq(G, IsUnknown)[k].tag]
                 = [k \in 1..Len(SelectSeq(F, IsUnknown)) |-> SelectSeq(F, IsUnknown)[k].tag]

\* The state after Save or Resize.
Recomputed == last.op = "Save" \/ last.op = "Resize"

SameMetadata(a, b) ==
    /\ a.riff_chunk = b.riff_chunk
    /\ a.fmt_chunk = b.fmt_chunk
    /\ a.data_chunk.chunk_type = b.data_chunk.chunk_type
    /\ a.data_chunk.chunk_size = b.data_chunk.chunk_size
    /\ nsamples(a) = nsamples(b)
    /\ a.other_chunks = b.other_chunks

\* The records of a trace that are data chunks.
DataCursors(trace) == SelectSeq(trace, IsData)

\* Whether every data chunk of the trace that the file holds whole took the
\* stream over its 8 header bytes and its size rounded up to even.
DataConsumedWhole(bytes, trace) ==
    \A k \in 1..Len(trace) :
       (IsData(trace[k]) /\ trace[k].at + 8 + RoundUpEven(trace[k].size) <= Len(bytes))
          => trace[k].next = trace[k].at + 8 + RoundUpEven(trace[k].size)

\* LoadMetadata(name) did what Load(name) does with the uninitialized byte g
\* and the buffer fill p, from the same Wave w to the Wave v.
MetadataAsLoad(w, v, ok, bytes, full, g, p) ==
    /\ ok = full.ok
    /\ SameMetadata(v, full.w)
    /\ LoadTrace(bytes, FALSE, g, p) = LoadTrace(bytes, TRUE, g, p)
    /\ DataConsumedWhole(bytes, LoadTrace(bytes, FALSE, g, p))
    /\ v.data_chunk.ptr = "live" => v.data_chunk = w.data_chunk

\* C11: LoadMetadata(f) leaves the RIFF fields, the format fields, the data
\* chunk's size, the sample count and the other chunks that Load(f) leaves
\* from the same Wave, reads as far into the stream at every chunk (8 bytes
\* and the size rounded up to even for a data chunk the file holds whole),
\* and allocates no data buffer.
C11_MetadataEquivalence ==
    [][(last'.op = "LoadMetadata" /\ disk[last'.name].exists)
         => \E g \in Garbage, p \in Fills :
               MetadataAsLoad(wave, wave', last'.ok, disk[last'.name].bytes,
                              LoadStream(wave, OpenIn(disk[last'.name].bytes),
                                         TRUE, g, p),
                              g, p)]_vars

\* LoadMetadata has read a file with an odd-sized data chunk between two
\* other chunks, into a Wave that owned a data buffer.
C11_Witness ==
    /\ last.op = "LoadMetadata" /\ last.ok /\ ~last.fresh
    /\ disk[last.name].exists
    /\ WellFormed(disk[last.name].bytes)
    /\ wave.data_chunk.chunk_size % 2 = 1
    /\ wave.data_chunk.ptr /= "live"
    /\ nsamples(wave) > 0
    /\ Len(wave.other_chunks) >= 2
    /\ Len(DataCursors(LoadTrace(disk[last.name].bytes, FALSE, 0, 0))) = 1


(***************************************************************************)
(* A load that fails.                                                      *)
(***************************************************************************)
\* The file does not start with "RIFF", or its bytes 9 to 12 are not "WAVE".
NotWaveFile(bytes) ==
    \/ Len(bytes) < 4
    \/ U32At(bytes, 1) /= CHUNK_TYPE_RIFF
    \/ Len(bytes) < 12
    \/ U32At(bytes, 9) /= RIFF_TYPE_WAVE

\* C12: a Load or LoadMetadata of a file that cannot be opened, that does
\* not start with the RIFF marker or whose format-family tag is not the WAVE
\* marker fails, and leaves the format chunk, the data chunk and the other
\* chunks as they were.
C12_FailedLoadKeepsState ==
    [][(last'.op \in {"Load", "LoadMetadata"}
          /\ (~disk[last'.name].exists \/ NotWaveFile(disk[last'.name].bytes)))
         => /\ ~last'.ok
            /\ ~last'.fault
            /\ wave'.fmt_chunk = wave.fmt_chunk
            /\ wave'.data_chunk = wave.data_chunk
            /\ wave'.other_chunks = wave.other_chunks]_vars

\* A Load of a RIFF file that is not a WAVE file has failed on a Wave that
\* holds a data buffer; the RIFF chunk was read.
C12_Witness ==
    /\ last.op = "Load" /\ ~last.ok
    /\ disk[last.name].exists
    /\ Len(disk[last.name].bytes) >= 12
    /\ U32At(disk[last.name].bytes, 1) = CHUNK_TYPE_RIFF
    /\ U32At(disk[last.name].bytes, 9) = TAG_AVI
    /\ wave.riff_chunk.riff_type = TAG_AVI
    /\ wave.data_chunk.ptr = "live"
    /\ wave.data_chunk.chunk_size > 0


(***************************************************************************)
(* Resize.                                                                 *)
(***************************************************************************)
\* nchannels * (bits_per_sample / 8) of a Wave.
FrameBytes(w) == w.fmt_chunk.nchannels * (w.fmt_chunk.bits_per_sample \div 8)

\* nsamples() is 0 when the data size or block_align is 0.
ZeroCount(w) ==
    (w.data_chunk.chunk_size = 0 \/ w.fmt_chunk.block_align = 0) => nsamples(w) = 0

PassesTests(bytes) ==
    /\ Len(bytes) >= 12
    /\ U32At(bytes, 1) = CHUNK_TYPE_RIFF
    /\ U32At(bytes, 9) = RIFF_TYPE_WAVE

\* An iteration takes the stream at least 4 bytes on or ends the loop.
IterationProgress ==
    (file.pc = "loop" /\ file.s.good)
       => \/ file'.s.pos >= file.s.pos + 4
          \/ file'.pc = "done"

\* The stream never goes back and never passes the end of the file.
CursorInFile ==
    /\ file'.pc /= "idle" => file'.s.pos \in 0..Len(disk[file'.name].bytes)
    /\ file.pc = "loop" => file'.s.pos >= file.s.pos

\* A Load that reached the loop ends as a success once the stream is used
\* up, without a delete[] of a released buffer.
NormalEnd ==
    (file.pc = "done" /\ disk[file.name].exists
       /\ PassesTests(disk[file.name].bytes))
       => /\ last.ok
          /\ ~last.fault
          /\ ~file.s.good

\* The Wave a finished step-wise Load of a whole model file leaves is one
\* that Wave::Load as a whole leaves for that file.
StepwiseAsLoad ==
    (file.pc = "done" /\ disk[file.name].exists
       /\ \E k \in 1..Len(InputFiles) : disk[file.name].bytes = InputFiles[k])
       => \E g \in Garbage, p \in Fills :
             wave = LoadStream(NewWave, OpenIn(disk[file.name].bytes),
                               file.load_data, g, p).w

\* C14: for every file, whole, cut at any byte or declaring more data than
\* it holds, Load and LoadMetadata come to an end; every iteration of the
\* loop takes the stream at least 4 bytes on or ends the loop; and a load
\* that reached the loop ends as a success when the stream is used up.
C14_LoadTerminates ==
    /\ <>(file.pc = "done")
    /\ [][IterationProgress /\ CursorInFile]_vars
    /\ []NormalEnd

\* A Load has ended on a file cut inside the payload of its second chunk,
\* after two iterations that read a chunk.
C14_Witness ==
    /\ file.pc = "done" /\ last.ok
    /\ PassesTests(disk[file.name].bytes)
    /\ Len(LoadTrace(disk[file.name].bytes, file.load_data, 0, 0)) >= 2
    /\ ~file.s.good
    /\ file.s.pos = Len(disk[file.name].bytes)
    /\ Len(wave.other_chunks) >= 1
    /\ wave.other_chunks[1].chunk_size > Len(disk[file.name].bytes) - 44



(***************************************************************************)
(* Decoding of a slice.                                                    *)
(***************************************************************************)
\* GetSample has just decoded the one slice of a mono sample.
DecodedSlice ==
    /\ last.op = "GetSample" /\ last.ok /\ ~last.fault
    /\ ret.kind = "avg"
    /\ wave.fmt_chunk.nchannels = 1

\* (r + 2^(8w-1)) mod 2^(8w) for the w >= 2 bytes of r, r itself for one
\* byte: the top bit of the top byte is flipped.
Rebiased(things) ==
    Widen([i \in 1..Len(things) |->
              IF i = Len(things) /\ Len(things) > 1 THEN (things[i] + 128) % 256
              ELSE things[i]],
          SizeofULL)

\* C15 as stated: the value decoded from a slice of w bytes holding r is r
\* for w = 1 and (r + 2^(8w-1)) mod 2^(8w) for w = 2, 3, 4, and so lies in
\* [0, 2^(8w) - 1].
C15_SliceDecoding ==
    DecodedSlice
       => /\ ret.total = Rebiased(Slice(wave, last.offset, 0))
          /\ \A k \in 1..SizeofULL : k > ret.size => ret.total[k] = 0

\* The same for the slices whose r is below 2^31: every slice of 1, 2 or 3
\* bytes, and the slices of 4 bytes with a top byte below 128.
C15_SliceDecodingBelow2G ==
    (DecodedSlice /\ (ret.size = 4 => Slice(wave, last.offset, 0)[4] < 128))
       => /\ ret.total = Rebiased(Slice(wave, last.offset, 0))
          /\ \A k \in 1..SizeofULL : k > ret.size => ret.total[k] = 0

\* A slice of 4 bytes with the top byte 128 or more was decoded to a value
\* of more than 32 bits.
C15_Witness ==
    /\ DecodedSlice
    /\ ret.size = 4
    /\ Slice(wave, last.offset, 0)[4] >= 128
    /\ ret.total[5] = 255 /\ ret.total[8] = 255


(***************************************************************************)
(* Framing of the chunks the loop reads.                                   *)
(***************************************************************************)
\* The step is an iteration of the loop that read the chunk at the cursor,
\* and the file holds that chunk whole: 8 bytes, then the declared size
\* rounded up to even.
ReadWholeChunk ==
    /\ file.pc = "loop" /\ file.s.good /\ file'.pc = "loop"
    /\ file.s.pos + 8 <= Len(disk[file.name].bytes)
    /\ file.s.pos + 8 + RoundUpEven(U32At(disk[file.name].bytes, file.s.pos + 5))
          <= Len(disk[file.name].bytes)

\* The stream is at the end of the chunk that started at the cursor.
AtNextChunk ==
    file'.s.pos =
       file.s.pos + 8 + RoundUpEven(U32At(disk[file.name].bytes, file.s.pos + 5))

\* C16 as stated: every iteration that reads a chunk the file holds whole,
\* a format chunk of any declared size included, leaves the stream at the
\* first byte of the next chunk: 8 bytes and the declared size rounded up to
\* even further on.
C16_SectionFraming ==
    [][ReadWholeChunk => AtNextChunk /\ file'.s.good]_vars

\* The same for every chunk but a format chunk that declares a size other
\* than 16.
C16_SectionFramingFmt16 ==
    [][(ReadWholeChunk
          /\ (U32At(disk[file.name].bytes, file.s.pos + 1) = CHUNK_TYPE_FMT
                => U32At(disk[file.name].bytes, file.s.pos + 5) = 16))
         => AtNextChunk /\ file'.s.good]_vars

\* The loop has read a format chunk that declares 40 bytes and stands 24
\* bytes after the start of that chunk, inside it.
C16_Witness ==
    /\ file.pc = "loop" /\ file.s.good
    /\ Len(disk[file.name].bytes) >= 60
    /\ U32At(disk[file.name].bytes, 13) = CHUNK_TYPE_FMT
    /\ U32At(disk[file.name].bytes, 17) = 40
    /\ file.s.pos = 36
    /\ wave.fmt_chunk.chunk_size = 40


(***************************************************************************)
(* Sample access and the data buffer.                                      *)
(***************************************************************************)
\* GetSample(offset) and SetSample(offset, v) touch only bytes [0,
\* chunk_size) of a buffer the data chunk holds.
AccessInData(w, offset) ==
    /\ w.data_chunk.ptr = "live"
    /\ AccessHi(w, offset) <= w.data_chunk.chunk_size
    /\ AccessHi(w, offset) <= Len(w.data_chunk.data_)

\* C17 as stated: in every state and for every offset below nsamples(),
\* GetSample and SetSample touch only bytes [0, chunk_size) of an allocated
\* data buffer.
C17_AccessInBuffer ==
    \A offset \in 0..(nsamples(wave) - 1) : AccessInData(wave, offset)

\* The same in the states Resize leaves.
C17_AccessInBufferAfterResize ==
    last.op = "Resize"
       => \A offset \in 0..(nsamples(wave) - 1) : AccessInData(wave, offset)

\* GetSample(0) was called, in range, on a Wave that LoadMetadata filled:
\* the data chunk has a size and no buffer.
C17_Witness ==
    /\ last.op = "GetSample" /\ last.ok /\ last.fault
    /\ last.offset = 0
    /\ nsamples(wave) > 0
    /\ wave.data_chunk.ptr = "null"
    /\ wave.data_chunk.data_length_ > 0
    /\ ret.kind = "undefined"


(***************************************************************************)
(* Ownership of the data buffer.                                           *)
(***************************************************************************)
\* The operations that run `if (data_) delete[] data_` on the data chunk:
\* ReAllocData (Resize, ReadFrom, Skip) and the destructor.
Releases == {"Load", "LoadMetadata", "Resize", "NewWave"}

\* C18 as stated: the data chunk never keeps a pointer to a buffer that was
\* released, and no operation runs delete[] on a buffer a second time.
C18_BufferOwnership ==
    /\ wave.data_chunk.ptr /= "freed"
    /\ \A k \in 1..Len(wave.other_chunks) : wave.other_chunks[k].ptr /= "freed"
    /\ last.op \in Releases => ~last.fault

\* The same for the chunks of other_chunks alone, which are only ever
\* copy-constructed.
C18_OtherChunksOwned ==
    \A k \in 1..Len(wave.other_chunks) :
       /\ wave.other_chunks[k].ptr /= "freed"
       /\ wave.other_chunks[k].ptr = "live" <=> wave.other_chunks[k].data_length_ > 0

\* The Wave was destroyed while its data chunk pointed at a buffer that
\* Resize(0) had released: delete[] ran on it again.
C18_Witness ==
    /\ last.op = "NewWave" /\ last.fault
    /\ wave = NewWave
    /\ ops >= 2


(***************************************************************************)
(* other_chunks after a load.                                              *)
(***************************************************************************)
\* A Load or LoadMetadata of a file of whole sections has just succeeded.
LoadedFramed ==
    /\ last.op \in {"Load", "LoadMetadata"} /\ last.ok
    /\ disk[last.name].exists
    /\ FramedWave(disk[last.name].bytes)

\* The unknown sections of the file last loaded.
UnknownOfLoaded == SelectSeq(Sections(disk[last.name].bytes), IsUnknown)

\* other_chunks is, in order, the unknown sections of the file last loaded.
ExtrasAreUnknownOfLoaded ==
    /\ Len(wave.other_chunks) = Len(UnknownOfLoaded)
    /\ \A k \in 1..Len(UnknownOfLoaded) :
          k <= Len(wave.other_chunks)
             /\ CarriesSection(wave.other_chunks[k], disk[last.name].bytes,
                               UnknownOfLoaded[k])

\* C19 as stated: after a successful load of a file, other_chunks holds
\* exactly the unknown sections of that file in the order met, also when
\* the Wave was filled by an earlier load.
C19_ExtrasOfLoadedFile == LoadedFramed => ExtrasAreUnknownOfLoaded

\* The same for a load into a new Wave.
C19_ExtrasOfFirstLoad == (LoadedFramed /\ last.fresh) => ExtrasAreUnknownOfLoaded

\* The same file was loaded again into the Wave: every unknown section is
\* in other_chunks twice.
C19_Witness ==
    /\ LoadedFramed /\ ~last.fresh /\ ~last.fault
    /\ last.name = "f"
    /\ Len(UnknownOfLoaded) > 0
    /\ Len(wave.other_chunks) = 2 * Len(UnknownOfLoaded)
    /\ \A k \in 1..Len(UnknownOfLoaded) :
          wave.other_chunks[k] = wave.other_chunks[Len(UnknownOfLoaded) + k]

====
